---------------------------- MODULE Spec2Model ----------------------------
(***************************************************************************)
(* A model of sony-remote.py: the SonyRemote client (one method per        *)
(* television action, every one of them going through _build_request) and *)
(* the command-line program around it (argument parsing, dispatch,         *)
(* rendering of the decoded response, exit status).                        *)
(*                                                                         *)
(* Two specifications share the client's operations:                       *)
(*   Spec     a SonyRemote object used as a library: constructed with any  *)
(*            base version, then any sequence of its eight methods;        *)
(*   CliSpec  one run of the __main__ block: parse, construct, invoke one  *)
(*            method, render, exit.                                        *)
(*                                                                         *)
(* JSON values are tagged records ([t |-> "list", l |-> <<..>>], ...), a   *)
(* decoded JSON object is a record whose DOMAIN is its key set, so that    *)
(* Python's  'error' in response  is  "error" \in DOMAIN response.         *)
(***************************************************************************)
EXTENDS Integers, Sequences, FiniteSets, TLC

VARIABLES
    remote,         \* the SonyRemote object: its fields, or NoRemote before construction
    netCalls,       \* number of self._session.post calls made so far
    posted,         \* the HTTP request posted by the most recent method call, or NoRequest
    ret,            \* outcome of the most recent method call (returned value or raised exception)
    called,         \* history: the most recent method call, with the state it started from
    ctorVersion,    \* history: the version argument the constructor was given
    lastOverrideOp, \* history: the most recent method among volume/list_inputs that posted a request
    pc,             \* position of the __main__ block
    argv,           \* the command line: options, subcommand, positional tokens
    args,           \* the dict parse_args() produced, after the pops of lines 117-120
    out,            \* what the process has printed, in order
    command,        \* the name of the bound method line 120 resolved, or None
    exitStatus      \* the status the process exits with once pc = "done" (0 unless exit(n) ran)

clientVars == <<remote, netCalls, posted, ret, called, ctorVersion, lastOverrideOp>>
cliVars == <<pc, argv, args, out, command, exitStatus>>
vars == <<remote, netCalls, posted, ret, called, ctorVersion, lastOverrideOp,
          pc, argv, args, out, command, exitStatus>>

-----------------------------------------------------------------------------
(* Bounds *)

\* Most session.post calls one client makes in the library specification.
MaxCalls == 3
\* Most positional tokens after the subcommand on the modelled command line.
MaxTokens == 3

-----------------------------------------------------------------------------
(* Values *)

None == "None"
EmptyMap == [k \in {} |-> TRUE]
NoRemote == [k \in {} |-> TRUE]
NoRequest == [k \in {} |-> TRUE]
NoCall == [op |-> "none"]
NoOutcome == [kind |-> "none"]

\* dict(a, **b): b's keys win.
Merge(a, b) == [k \in DOMAIN a \cup DOMAIN b |-> IF k \in DOMAIN b THEN b[k] ELSE a[k]]

\* JSON values, and Python's truth value of a decoded JSON value.
JInt(n) == [t |-> "int", i |-> n]
JStr(s) == [t |-> "str", s |-> s]
JNull == [t |-> "null"]
JList(l) == [t |-> "list", l |-> l]
JObj(o) == [t |-> "obj", o |-> o]

Truthy(v) ==
    CASE v.t = "int" -> v.i # 0
      [] v.t = "str" -> v.s # ""
      [] v.t = "list" -> v.l # <<>>
      [] v.t = "obj" -> v.o # {}
      [] v.t = "bool" -> v.b
      [] OTHER -> FALSE

-----------------------------------------------------------------------------
(* The device and the transport: a black box.  A posted request is         *)
(* answered by a JSON object, or the transport fails (session.post         *)
(* raises), or the body is not JSON (json.loads raises).                   *)

RowA == JObj({<<"a", 1>>})
RowB == JObj({<<"a", 2>>})

Results ==
    { JList(<<>>),                          \* "result": []
      JList(<<RowA>>),                      \* one row
      JList(<<RowA, RowB>>),                \* two rows, not wrapped
      JList(<<JList(<<RowA, RowB>>)>>),     \* one element wrapping two rows
      JList(<<JList(<<RowA, RowB>>), RowA>>), \* two elements, the first a list
      JList(<<JList(<<>>)>>),               \* [[]]
      JList(<<JInt(0)>>),                   \* [0]
      JList(<<JObj({})>>),                  \* [{}]
      JList(<<JInt(0), RowA>>),             \* a falsy first element before a row
      JList(<<JStr("active")>>),            \* a row that is a string
      JNull }                               \* "result": null

Errors ==
    { <<3, "Illegal Argument">>, <<12, "No Such Method">>,
      <<14, "Unsupported Version">>, <<7, "Illegal State">>,
      <<40005, "Display Is Turned off">> }

Responses ==
    {[id |-> 1]}
    \cup {[id |-> 1, result |-> r] : r \in Results}
    \cup {[id |-> 1, error |-> e] : e \in Errors}
    \cup {[id |-> 1, error |-> e, result |-> JList(<<RowA>>)] : e \in {<<12, "No Such Method">>, <<7, "Illegal State">>}}

Replies ==
    {[kind |-> "json", body |-> b] : b \in Responses}
    \cup {[kind |-> "refused"], [kind |-> "garbage"]}

-----------------------------------------------------------------------------
(* class SonyRemote *)

\* __init__: the object's fields.
SonyRemote(host, key, version) ==
    [ ip |-> host,
      url |-> "sony",
      base_data |-> [id |-> 1, version |-> version],
      headers |-> [ContentType |-> "application/json", XAuthPSK |-> key] ]

\* The outcome of  json.loads(res.content.decode())  after the post.
Outcome(reply) ==
    CASE reply.kind = "json" -> [kind |-> "return", value |-> reply.body]
      [] reply.kind = "refused" -> [kind |-> "raise", exc |-> "ConnectionError"]
      [] OTHER -> [kind |-> "raise", exc |-> "JSONDecodeError"]

\* base = self._base_data; if version: base['version'] = version
\* base is the object's own dict, not a copy: the assignment writes the field.
BaseAfter(base, version) ==
    IF version # None /\ version # ""
        THEN [base EXCEPT !.version = version]
        ELSE base

\* Mutant: the override goes into a per-call copy of the base data.
build_request_Copy(method, path, version, kwargs, reply) ==
    LET base == BaseAfter(remote.base_data, version) IN
    /\ remote' = remote
    /\ posted' = [ url |-> "http://" \o remote.ip \o "/" \o remote.url \o "/" \o path,
                   headers |-> remote.headers,
                   data |-> Merge([method |-> method, params |-> <<kwargs>>], base) ]
    /\ netCalls' = netCalls + 1
    /\ ret' = Outcome(reply)

\* Mutant: an empty argument mapping is left out of params.
build_request_DropEmpty(method, path, version, kwargs, reply) ==
    LET base == BaseAfter(remote.base_data, version) IN
    /\ remote' = [remote EXCEPT !.base_data = base]
    /\ posted' = [ url |-> "http://" \o remote.ip \o "/" \o remote.url \o "/" \o path,
                   headers |-> remote.headers,
                   data |-> Merge([method |-> method,
                                   params |-> IF DOMAIN kwargs = {} THEN <<>> ELSE <<kwargs>>],
                                  base) ]
    /\ netCalls' = netCalls + 1
    /\ ret' = Outcome(reply)

\* _build_request(method, path, version, **kwargs), answered by reply.
build_request(method, path, version, kwargs, reply) ==
    LET base == BaseAfter(remote.base_data, version) IN
    /\ remote' = [remote EXCEPT !.base_data = base]
    /\ posted' = [ url |-> "http://" \o remote.ip \o "/" \o remote.url \o "/" \o path,
                   headers |-> remote.headers,
                   data |-> Merge([method |-> method, params |-> <<kwargs>>], base) ]
    /\ netCalls' = netCalls + 1
    /\ ret' = Outcome(reply)

\* A method that returns without calling _build_request.
ReturnLocally(value) ==
    /\ ret' = [kind |-> "return", value |-> value]
    /\ posted' = NoRequest
    /\ UNCHANGED <<remote, netCalls>>

\* Mutant: every status but "active" is sent as standby.
power_Lenient(status, reply) ==
    IF status = "active"
        THEN build_request("setPowerStatus", "system", None, [status |-> TRUE], reply)
        ELSE build_request("setPowerStatus", "system", None, [status |-> FALSE], reply)

power(status, reply) ==
    IF status = "active"
        THEN build_request("setPowerStatus", "system", None, [status |-> TRUE], reply)
    ELSE IF status = "standby"
        THEN build_request("setPowerStatus", "system", None, [status |-> FALSE], reply)
    ELSE ReturnLocally([error |-> <<3, "Illegal Argument">>])

\* Mutant: volume sends the client's version.
volume_BaseVersion(vol, ui, target, reply) ==
    build_request("setAudioVolume", "audio", None,
                  [volume |-> vol, ui |-> ui, target |-> target], reply)

volume(vol, ui, target, reply) ==
    build_request("setAudioVolume", "audio", "1.2",
                  [volume |-> vol, ui |-> ui, target |-> target], reply)

app(uri, reply) ==
    build_request("setActiveApp", "appControl", None, [uri |-> uri], reply)

reboot(reply) ==
    build_request("requestReboot", "system", None, EmptyMap, reply)

\* Mutant: screen mirroring posted to the application service.
screen_mirror_WrongPath(reply) ==
    build_request("setPlayContent", "appControl", None, [uri |-> "extInput:widi?port=1"], reply)

screen_mirror(reply) ==
    build_request("setPlayContent", "avContent", None, [uri |-> "extInput:widi?port=1"], reply)

list_apps(reply) ==
    build_request("getApplicationList", "appControl", None, EmptyMap, reply)

list_inputs(reply) ==
    build_request("getCurrentExternalInputsStatus", "avContent", "1.1", EmptyMap, reply)

check_power(reply) ==
    build_request("getPowerStatus", "system", None, EmptyMap, reply)

\* The public methods: dir(SonyRemote) without the names starting with '_'.
Commands ==
    {"app", "check_power", "list_apps", "list_inputs", "power", "reboot",
     "screen_mirror", "volume"}

\* getattr(remote, name)(**a), answered by reply.
Dispatch(name, a, reply) ==
    CASE name = "power" -> power(a.status, reply)
      [] name = "volume" -> volume(a.volume, a.ui, a.target, reply)
      [] name = "app" -> app(a.uri, reply)
      [] name = "reboot" -> reboot(reply)
      [] name = "screen_mirror" -> screen_mirror(reply)
      [] name = "list_apps" -> list_apps(reply)
      [] name = "list_inputs" -> list_inputs(reply)
      [] name = "check_power" -> check_power(reply)

\* One method call, with the history of what it started from.
Call(name, a, reply) ==
    /\ Dispatch(name, a, reply)
    /\ called' = [ op |-> name, args |-> a,
                   netBefore |-> netCalls,
                   versionBefore |-> remote.base_data.version,
                   overrideBefore |-> lastOverrideOp ]
    /\ lastOverrideOp' = IF name \in {"volume", "list_inputs"} /\ posted' # NoRequest
                             THEN name ELSE lastOverrideOp
    /\ UNCHANGED ctorVersion

-----------------------------------------------------------------------------
(* The library specification: one client, any sequence of method calls.    *)

\* The defaults of --host and --psk.
DefaultHost == "192.168.1.100"
DefaultPsk == "1234"

Hosts == {DefaultHost, "tv.lan"}
Keys == {DefaultPsk}
BaseVersions == {"1.0", "1.1", "1.2"}
Statuses == {"active", "standby", "on", "Active"}
VolumeArgs == {<<"5", "on", "">>, <<"+1", "off", "speaker">>}
Uris == {"localapp://webappruntime?url=x", "extInput:widi?port=1"}

Idle ==
    /\ pc = "library"
    /\ argv = EmptyMap
    /\ args = EmptyMap
    /\ out = <<>>
    /\ command = None
    /\ exitStatus = 0

Init ==
    /\ \E h \in Hosts, k \in Keys, v \in BaseVersions :
          /\ remote = SonyRemote(h, k, v)
          /\ ctorVersion = v
    /\ netCalls = 0
    /\ posted = NoRequest
    /\ ret = NoOutcome
    /\ called = NoCall
    /\ lastOverrideOp = None
    /\ Idle

CanCall == netCalls < MaxCalls

CallPower ==
    \E s \in Statuses, reply \in Replies :
        CanCall /\ Call("power", [status |-> s], reply) /\ UNCHANGED cliVars

CallVolume ==
    \E a \in VolumeArgs, reply \in Replies :
        /\ CanCall
        /\ Call("volume", [volume |-> a[1], ui |-> a[2], target |-> a[3]], reply)
        /\ UNCHANGED cliVars

CallApp ==
    \E u \in Uris, reply \in Replies :
        CanCall /\ Call("app", [uri |-> u], reply) /\ UNCHANGED cliVars

CallReboot ==
    \E reply \in Replies :
        CanCall /\ Call("reboot", EmptyMap, reply) /\ UNCHANGED cliVars

CallScreenMirror ==
    \E reply \in Replies :
        CanCall /\ Call("screen_mirror", EmptyMap, reply) /\ UNCHANGED cliVars

CallListApps ==
    \E reply \in Replies :
        CanCall /\ Call("list_apps", EmptyMap, reply) /\ UNCHANGED cliVars

CallListInputs ==
    \E reply \in Replies :
        CanCall /\ Call("list_inputs", EmptyMap, reply) /\ UNCHANGED cliVars

CallCheckPower ==
    \E reply \in Replies :
        CanCall /\ Call("check_power", EmptyMap, reply) /\ UNCHANGED cliVars

Next ==
    \/ CallPower
    \/ CallVolume
    \/ CallApp
    \/ CallReboot
    \/ CallScreenMirror
    \/ CallListApps
    \/ CallListInputs
    \/ CallCheckPower

Spec == Init /\ [][Next]_vars

-----------------------------------------------------------------------------
(* class ArgParser and the __main__ block: one run of the program.         *)

\* signature(func).parameters without self.  A default that is a type
\* (status=str) gives a required positional of that type (isType); any other
\* default gives  nargs='?', default=<it>, type=type(<it>).
StrType == "<class 'str'>"
Param(n, d) == [name |-> n, default |-> d, isType |-> (d = StrType)]
Params(name) ==
    CASE name = "power" -> <<Param("status", StrType)>>
      [] name = "volume" -> <<Param("volume", StrType), Param("ui", "on"), Param("target", "")>>
      [] name = "app" -> <<Param("uri", StrType)>>
      [] OTHER -> <<>>

\* command.replace('_', '-'), on the names of Commands.
Hyphenated(name) ==
    CASE name = "check_power" -> "check-power"
      [] name = "list_apps" -> "list-apps"
      [] name = "list_inputs" -> "list-inputs"
      [] name = "screen_mirror" -> "screen-mirror"
      [] OTHER -> name

\* The sub-parsers add_command registered: subcommand -> method name.
Registered == {<<Hyphenated(c), c>> : c \in Commands}
FuncOf(sub) == CHOOSE c \in Commands : <<sub, c>> \in Registered

NumRequired(params) == Cardinality({i \in 1..Len(params) : params[i].isType})

\* The sub-parser's namespace: positionals bound in declared order, a
\* missing nargs='?' positional taking its default.
Bind(params, tokens) ==
    [n \in {params[i].name : i \in 1..Len(params)} |->
        LET i == CHOOSE j \in 1..Len(params) : params[j].name = n IN
        IF i <= Len(tokens) THEN tokens[i] ELSE params[i].default]

\* Mutant: a missing required positional is not an error.
UsageError_OptionalParams(a) ==
    \/ a.cmd \notin {r[1] : r \in Registered}
    \/ Len(a.tokens) > Len(Params(FuncOf(a.cmd)))

\* parse_args() exits with status 2 and a usage message on an invalid
\* choice of subcommand, a missing required positional, or extra tokens.
UsageError(a) ==
    \/ a.cmd \notin {r[1] : r \in Registered}
    \/ Len(a.tokens) < NumRequired(Params(FuncOf(a.cmd)))
    \/ Len(a.tokens) > Len(Params(FuncOf(a.cmd)))

Subcommands == {Hyphenated(c) : c \in Commands} \cup {"bogus", "list_apps"}
Tokens == {"active", "standby", "5"}
TokenSeqs == UNION {[1..n -> Tokens] : n \in 0..MaxTokens}

\* The command lines: no subcommand at all, or a subcommand and its tokens.
CommandLines ==
    {[host |-> h, psk |-> k, cmd |-> None, tokens |-> <<>>] : h \in Hosts, k \in Keys}
    \cup {[host |-> h, psk |-> k, cmd |-> c, tokens |-> t] :
            h \in Hosts, k \in Keys, c \in Subcommands, t \in TokenSeqs}

CliInit ==
    /\ remote = NoRemote
    /\ ctorVersion = None
    /\ netCalls = 0
    /\ posted = NoRequest
    /\ ret = NoOutcome
    /\ called = NoCall
    /\ lastOverrideOp = None
    /\ pc = "parse"
    /\ argv \in CommandLines
    /\ args = EmptyMap
    /\ out = <<>>
    /\ command = None
    /\ exitStatus = 0

\* Lines 106-115: build the parser, parse_args(), the 'func' check.
Parse ==
    /\ pc = "parse"
    /\ IF argv.cmd = None
         THEN /\ out' = Append(out, [kind |-> "help"])
              /\ exitStatus' = 1
              /\ pc' = "done"
              /\ UNCHANGED args
       ELSE IF UsageError(argv)
         THEN /\ out' = Append(out, [kind |-> "usage_error"])
              /\ exitStatus' = 2
              /\ pc' = "done"
              /\ UNCHANGED args
       ELSE /\ args' = Merge([host |-> argv.host, psk |-> argv.psk, func |-> FuncOf(argv.cmd)],
                             Bind(Params(FuncOf(argv.cmd)), argv.tokens))
            /\ pc' = "construct"
            /\ UNCHANGED <<out, exitStatus>>
    /\ UNCHANGED <<argv, command>>
    /\ UNCHANGED clientVars

\* Lines 117-120: pop host, psk and func; construct the client; resolve the method.
Construct ==
    /\ pc = "construct"
    /\ remote' = SonyRemote(args.host, args.psk, "1.0")
    /\ ctorVersion' = "1.0"
    /\ command' = args.func
    /\ args' = [k \in DOMAIN args \ {"host", "psk", "func"} |-> args[k]]
    /\ pc' = "invoke"
    /\ UNCHANGED <<netCalls, posted, ret, called, lastOverrideOp, argv, out, exitStatus>>

\* Line 121: response = command(**args).  An exception raised by the post or
\* by json.loads is not caught: traceback, exit status 1.
Invoke ==
    /\ pc = "invoke"
    /\ \E reply \in Replies : Call(command, args, reply)
    /\ IF ret'.kind = "raise"
         THEN /\ out' = Append(out, [kind |-> "traceback", exc |-> ret'.exc])
              /\ exitStatus' = 1
              /\ pc' = "done"
         ELSE /\ pc' = "render"
              /\ UNCHANGED <<out, exitStatus>>
    /\ UNCHANGED <<argv, args, command>>

\* Mutant: a first element that is a list is unwrapped whatever the length.
Rows_UnwrapAnyList(result) ==
    IF result.l[1].t = "list"
        THEN result.l[1].l
        ELSE result.l

\* Lines 131-133: the rows of a truthy result.
Rows(result) ==
    IF result.l[1].t = "list" /\ Len(result.l) = 1
        THEN result.l[1].l
        ELSE result.l

\* Mutant: the usage help is printed for every error code.
ErrorOutput_AlwaysHelp(response, a) ==
    <<[kind |-> "error", msg |-> response.error[2], args |-> a]>>
    \o <<[kind |-> "help"]>>
    \o (IF response.error[1] = 12
          THEN <<[kind |-> "hint", text |-> "No Such Method (Check version)"]>> ELSE <<>>)
    \o (IF response.error[1] = 14
          THEN <<[kind |-> "hint", text |-> "Unsupported Version"]>> ELSE <<>>)

\* Lines 124-127: what the error branch prints.
ErrorOutput(response, a) ==
    <<[kind |-> "error", msg |-> response.error[2], args |-> a]>>
    \o (IF response.error[1] = 3 THEN <<[kind |-> "help"]>> ELSE <<>>)
    \o (IF response.error[1] = 12
          THEN <<[kind |-> "hint", text |-> "No Such Method (Check version)"]>> ELSE <<>>)
    \o (IF response.error[1] = 14
          THEN <<[kind |-> "hint", text |-> "Unsupported Version"]>> ELSE <<>>)

\* Lines 134-135: one print per row, of the row's indented JSON text with
\* the quotes and braces removed.
RowOutput(rows) == [i \in 1..Len(rows) |-> [kind |-> "row", value |-> rows[i]]]

\* Mutant: the raw body is printed whenever no rows are.
Rendering_ElseRaw(response, a) ==
    IF "error" \in DOMAIN response
        THEN [print |-> ErrorOutput(response, a), exit |-> 1]
    ELSE IF /\ "result" \in DOMAIN response
            /\ Truthy(response.result)
            /\ Truthy(response.result.l[1])
        THEN [print |-> RowOutput(Rows(response.result)), exit |-> 0]
    ELSE [print |-> <<[kind |-> "raw", body |-> response]>>, exit |-> 0]

\* Lines 123-138, the if/elif chain: what is printed, and the status the
\* process ends with (exit(1) in the error branch, the end of the script
\* otherwise).
Rendering(response, a) ==
    IF "error" \in DOMAIN response
        THEN [print |-> ErrorOutput(response, a), exit |-> 1]
    ELSE IF /\ "result" \in DOMAIN response
            /\ Truthy(response.result)
            /\ Truthy(response.result.l[1])
        THEN [print |-> RowOutput(Rows(response.result)), exit |-> 0]
    ELSE IF "result" \notin DOMAIN response
        THEN [print |-> <<[kind |-> "raw", body |-> response]>>, exit |-> 0]
    ELSE [print |-> <<>>, exit |-> 0]

Render ==
    /\ pc = "render"
    /\ out' = out \o Rendering(ret.value, args).print
    /\ exitStatus' = Rendering(ret.value, args).exit
    /\ pc' = "done"
    /\ UNCHANGED <<argv, args, command>>
    /\ UNCHANGED clientVars

CliNext ==
    \/ Parse
    \/ Construct
    \/ Invoke
    \/ Render

CliSpec == CliInit /\ [][CliNext]_vars

-----------------------------------------------------------------------------
(* Properties.  The tables below restate the specification's section 4.1; *)
(* they are what the client's requests are compared with.                  *)

Sent == posted # NoRequest
NoOverrideOps == {"power", "app", "reboot", "screen_mirror", "list_apps", "check_power"}

TableMethod(op) ==
    CASE op = "power" -> "setPowerStatus"
      [] op = "volume" -> "setAudioVolume"
      [] op = "app" -> "setActiveApp"
      [] op = "reboot" -> "requestReboot"
      [] op = "screen_mirror" -> "setPlayContent"
      [] op = "list_apps" -> "getApplicationList"
      [] op = "list_inputs" -> "getCurrentExternalInputsStatus"
      [] op = "check_power" -> "getPowerStatus"

TablePath(op) ==
    CASE op \in {"power", "reboot", "check_power"} -> "system"
      [] op = "volume" -> "audio"
      [] op \in {"app", "list_apps"} -> "appControl"
      [] op \in {"screen_mirror", "list_inputs"} -> "avContent"

\* The argument mapping section 4.1 declares for a call.
DeclaredArgs(c) ==
    CASE c.op = "power" -> [status |-> (c.args.status = "active")]
      [] c.op = "volume" -> [volume |-> c.args.volume, ui |-> c.args.ui, target |-> c.args.target]
      [] c.op = "app" -> [uri |-> c.args.uri]
      [] c.op = "screen_mirror" -> [uri |-> "extInput:widi?port=1"]
      [] OTHER -> EmptyMap

\* The version an override-free request carries when the override of the
\* most recent overriding method (if any) has stayed in the client.
CarriedVersion(overrideOp) ==
    CASE overrideOp = "volume" -> "1.2"
      [] overrideOp = "list_inputs" -> "1.1"
      [] OTHER -> ctorVersion

\* C1: power("active") posts exactly one request with status = true,
\* power("standby") exactly one with status = false, and power with any other
\* status returns {error: [3, "Illegal Argument"]}, posts nothing and leaves
\* the number of network calls as it was.
C1_PowerValidation ==
    called.op = "power" =>
        /\ called.args.status = "active" =>
             /\ Sent /\ netCalls = called.netBefore + 1
             /\ posted.data.params[1].status = TRUE
        /\ called.args.status = "standby" =>
             /\ Sent /\ netCalls = called.netBefore + 1
             /\ posted.data.params[1].status = FALSE
        /\ called.args.status \notin {"active", "standby"} =>
             /\ ret = [kind |-> "return", value |-> [error |-> <<3, "Illegal Argument">>]]
             /\ ~Sent
             /\ netCalls = called.netBefore

\* A power call with an illegal status, made after the client has posted requests.
C1_Witness ==
    /\ called.op = "power" /\ called.args.status = "on"
    /\ called.netBefore = 2 /\ netCalls = 2
    /\ ret.kind = "return"

\* C2: every request of a method without a version override carries the
\* version the constructor was given, whatever was called on the client before.
C2_VersionImmutable ==
    (called.op \in NoOverrideOps /\ Sent) => posted.data.version = ctorVersion

\* C3: every request of volume carries version "1.2" and every request of
\* list_inputs carries version "1.1", for every base version and history.
C3_OverrideVersions ==
    /\ called.op = "volume" => (Sent /\ posted.data.version = "1.2")
    /\ called.op = "list_inputs" => (Sent /\ posted.data.version = "1.1")

\* volume called on a client constructed with "1.0" whose stored version is "1.1".
C3_Witness ==
    /\ called.op = "volume" /\ ctorVersion = "1.0" /\ called.versionBefore = "1.1"
    /\ posted.data.version = "1.2"

\* C4: every request posted has id 1 and params of length exactly 1, its only
\* element the mapping of exactly the method's declared arguments.
C4_Envelope ==
    Sent =>
        /\ posted.data.id = 1
        /\ Len(posted.data.params) = 1
        /\ DOMAIN posted.data.params[1] = DOMAIN DeclaredArgs(called)
        /\ posted.data.params[1] = DeclaredArgs(called)

\* A reboot (empty mapping) posted as the third request of a client.
C4_Witness ==
    /\ called.op = "reboot" /\ Sent /\ netCalls = 3
    /\ posted.data.params = <<EmptyMap>>

\* C5: every request carries the method name of the table of section 4.1 and
\* is posted to http://<host>/sony/<path segment of the table>.
C5_MethodAndPath ==
    Sent =>
        /\ posted.data.method = TableMethod(called.op)
        /\ posted.url = "http://" \o remote.ip \o "/sony/" \o TablePath(called.op)

\* Screen mirroring posted to a host that is not the default.
C5_Witness ==
    /\ called.op = "screen_mirror" /\ Sent /\ remote.ip = "tv.lan"
    /\ posted.url = "http://tv.lan/sony/avContent"

-----------------------------------------------------------------------------
(* Properties of one run of the program (CliSpec). *)

Finished == pc = "done"
Returned == ret.kind = "return"
Printed(e) == \E i \in 1..Len(out) : out[i] = e
PrintedKind(k) == \E i \in 1..Len(out) : out[i].kind = k

\* C6: a response with an error field is rendered as a failure: the message
\* with the arguments used, no rows and no raw body, the usage help iff the
\* code is 3, "No Such Method (Check version)" iff it is 12, "Unsupported
\* Version" iff it is 14, nothing more for another code, exit status non-zero.
C6_ErrorRendering ==
    (Finished /\ Returned /\ "error" \in DOMAIN ret.value) =>
        LET code == ret.value.error[1] IN
        /\ out[1] = [kind |-> "error", msg |-> ret.value.error[2], args |-> args]
        /\ ~PrintedKind("row") /\ ~PrintedKind("raw")
        /\ Printed([kind |-> "help"]) <=> code = 3
        /\ Printed([kind |-> "hint", text |-> "No Such Method (Check version)"]) <=> code = 12
        /\ Printed([kind |-> "hint", text |-> "Unsupported Version"]) <=> code = 14
        /\ code \notin {3, 12, 14} => Len(out) = 1
        /\ exitStatus # 0

\* A device response carrying both error 12 and a result, rendered.
C6_Witness ==
    /\ Finished /\ Returned /\ Sent
    /\ "error" \in DOMAIN ret.value /\ "result" \in DOMAIN ret.value
    /\ ret.value.error[1] = 12
    /\ Len(out) = 2

\* A successful response whose result is non-empty with a truthy first element.
HasRows(response) ==
    /\ "error" \notin DOMAIN response
    /\ "result" \in DOMAIN response
    /\ response.result.t = "list"
    /\ Len(response.result.l) > 0
    /\ Truthy(response.result.l[1])

\* C7: such a response prints one row per element of the row list, which is
\* result[0] iff result has exactly one element and that element is a
\* sequence, and result otherwise.
C7_RowUnwrapping ==
    (Finished /\ Returned /\ HasRows(ret.value)) =>
        LET result == ret.value.result.l
            rowList == IF Len(result) = 1 /\ result[1].t = "list" THEN result[1].l ELSE result
        IN  /\ Len(out) = Len(rowList)
            /\ \A i \in 1..Len(out) : out[i] = [kind |-> "row", value |-> rowList[i]]
            /\ Len(result) >= 2 => Len(out) = Len(result)

\* {"result": [[{"a":1},{"a":2}]]} rendered as two rows.
C7_Witness ==
    /\ Finished /\ Returned
    /\ ret.value = [id |-> 1, result |-> JList(<<JList(<<RowA, RowB>>)>>)]
    /\ Len(out) = 2

\* C8: a response without an error field ends the process with status 0, and
\* exactly one of: rows are printed (result non-empty, first element truthy);
\* the raw body is printed unchanged (no result key); nothing is printed.
C8_SuccessOutcomes ==
    (Finished /\ Returned /\ "error" \notin DOMAIN ret.value) =>
        LET response == ret.value
            rows == /\ Len(out) > 0
                    /\ \A i \in 1..Len(out) : out[i].kind = "row"
            raw == out = <<[kind |-> "raw", body |-> response]>>
            nothing == out = <<>>
        IN  /\ exitStatus = 0
            /\ rows <=> HasRows(response)
            /\ raw <=> "result" \notin DOMAIN response
            /\ nothing <=> ("result" \in DOMAIN response /\ ~HasRows(response))
            /\ Cardinality({b \in {"rows", "raw", "nothing"} :
                   \/ b = "rows" /\ rows
                   \/ b = "raw" /\ raw
                   \/ b = "nothing" /\ nothing}) = 1

\* {"result": [[]]}: result present, its first element empty; nothing printed.
C8_Witness ==
    /\ Finished /\ Returned
    /\ ret.value = [id |-> 1, result |-> JList(<<JList(<<>>)>>)]
    /\ out = <<>> /\ exitStatus = 0

\* The subcommands and required parameters of section 4.1, hyphenated.
TableCommands ==
    {"power", "volume", "app", "reboot", "screen-mirror", "list-apps", "list-inputs",
     "check-power"}
TableRequired(cmd) == IF cmd \in {"power", "volume", "app"} THEN 1 ELSE 0

\* C9: a run posts at most one request; none when the subcommand is missing
\* or unknown, a required parameter is not supplied, or power's status is
\* illegal; in the first three cases the run ends with a usage message and a
\* non-zero status and no client method is ever invoked.
C9_AtMostOneRequest ==
    /\ netCalls <= 1
    /\ ( \/ argv.cmd \notin TableCommands
         \/ Len(argv.tokens) < TableRequired(argv.cmd) ) =>
            /\ netCalls = 0 /\ called = NoCall /\ remote = NoRemote
            /\ pc \in {"parse", "done"}
            /\ Finished => ( /\ exitStatus # 0
                             /\ out \in {<<[kind |-> "help"]>>, <<[kind |-> "usage_error"]>>} )
    /\ ( /\ argv.cmd = "power" /\ Len(argv.tokens) >= 1
         /\ argv.tokens[1] \notin {"active", "standby"} ) => netCalls = 0

\* "volume" with no level: the run has ended with a usage error.
C9_Witness ==
    /\ Finished /\ argv.cmd = "volume" /\ argv.tokens = <<>>
    /\ exitStatus = 2 /\ netCalls = 0

=============================================================================
